---- MODULE Spec2Model ----
(***************************************************************************)
(* Model of test-projects/rust-project/src/main.rs.                        *)
(*                                                                         *)
(* The program constructs one Config, renders it with the derived Debug    *)
(* implementation and hands the rendering to println!, which writes it     *)
(* through the line-buffered standard-output handle of the Rust runtime.   *)
(* Text is modelled as a sequence of one-character strings, so that        *)
(* formatting is computed character by character.  A u32 is modelled as    *)
(* two 16-bit limbs (hi, lo), because TLC's integers are 32-bit signed and *)
(* cannot hold 4294967295.  The operating system's answers to write(2) on  *)
(* descriptor 1 (all bytes, some bytes, EINTR, an error) are the           *)
(* nondeterminism of the model; `opened` records what main and the library *)
(* calls on its path open, not what the program loader does.               *)
(***************************************************************************)
EXTENDS Integers, Sequences, FiniteSets, TLC

VARIABLES
    args,       \* command-line arguments the process was started with
    env,        \* names of the environment variables set for the process
    pc,         \* position of the single thread of control
    config,     \* <<>> before `let config = ...`, <<c>> afterwards
    fmtPos,     \* number of pieces println! has handed to the stdout handle
    buf,        \* contents of the LineWriter buffer of the stdout handle
    stdout,     \* bytes the operating system accepted on descriptor 1
    stderr,     \* messages written to descriptor 2
    panicked,   \* TRUE once println! has panicked
    exitCode,   \* <<>> while running, <<code>> once the process has exited
    oslog,      \* results the operating system gave to the writes on 1
    opened,     \* files and sockets the process opened besides 0, 1 and 2
    prev,       \* <<>>, or <<outcome>> of the previous invocation
    serIn,      \* <<>>, or <<c>>: the Config handed to Serialize
    serMap,     \* <<>>, or <<m>>: a mapping (sequence of key/value entries)
    deOut       \* <<>>, or <<r>>: the Result of Deserialize

runVars == <<args, env, pc, config, fmtPos, buf, stdout, stderr, panicked,
             exitCode, oslog, opened>>
serVars == <<serIn, serMap, deOut>>
vars == <<args, env, pc, config, fmtPos, buf, stdout, stderr, panicked,
          exitCode, oslog, opened, prev, serIn, serMap, deOut>>

(***************************************************************************)
(* Bounds of the model.                                                    *)
(***************************************************************************)
\* the most bytes the operating system accepts in a short write
MaxShort == 2
\* the most short writes in one invocation
MaxShortWrites == 1
\* the most writes interrupted by a signal (EINTR) in one invocation
MaxInterrupts == 1
\* the most entries of a mapping handed to Deserialize
MaxEntries == 2
\* how far the sampled integers reach from 0 and from the u32 boundary
MaxDelta == 1

(***************************************************************************)
(* Helpers on sequences.                                                   *)
(***************************************************************************)
Range(s) == {s[i] : i \in 1..Len(s)}

IsPrefix(p, s) == Len(p) <= Len(s) /\ SubSeq(s, 1, Len(p)) = p

Drop(s, n) == SubSeq(s, n + 1, Len(s))

RECURSIVE Flatten(_)
Flatten(ps) == IF ps = <<>> THEN <<>> ELSE Head(ps) \o Flatten(Tail(ps))

(***************************************************************************)
(* u32: two 16-bit limbs.                                                  *)
(***************************************************************************)
LimbBase == 65536

U32(h, l) == [hi |-> h, lo |-> l]

IsU32(v) == v.hi \in 0..(LimbBase - 1) /\ v.lo \in 0..(LimbBase - 1)

U32Max == U32(LimbBase - 1, LimbBase - 1)

(***************************************************************************)
(* struct Config { name: String, version: u32 }                            *)
(***************************************************************************)
Config(n, v) == [name |-> n, version |-> v]

(***************************************************************************)
(* Inputs of an invocation.  main reads none of them.                      *)
(***************************************************************************)
ArgChoices == {<<>>, <<"--name=prod">>, <<"prod", "2">>}
EnvChoices == {{}, {"RUST_BACKTRACE", "NAME"}}

\* Variant: the name is taken from the command line when one is given.
MainConfigFromArgs ==
    Config(IF args = <<>> THEN <<"t", "e", "s", "t">> ELSE <<"p", "r", "o", "d">>,
           U32(0, 1))

\* let config = Config { name: String::from("test"), version: 1 };
MainConfig == Config(<<"t", "e", "s", "t">>, U32(0, 1))

(***************************************************************************)
(* #[derive(Debug)] and the format string of println!.                     *)
(***************************************************************************)
DigitChars == <<"0", "1", "2", "3", "4", "5", "6", "7", "8", "9">>

\* Long division of hi * 65536 + lo by ten, limb by limb.
DivTen(v) ==
    LET t == (v.hi % 10) * LimbBase + v.lo
    IN  U32(v.hi \div 10, t \div 10)

ModTen(v) == ((v.hi % 10) * LimbBase + v.lo) % 10

\* <u32 as Debug>::fmt: the decimal digits, most significant first.
RECURSIVE DecDigits(_)
DecDigits(v) ==
    IF v.hi = 0 /\ v.lo < 10
    THEN <<DigitChars[v.lo + 1]>>
    ELSE DecDigits(DivTen(v)) \o <<DigitChars[ModTen(v) + 1]>>

\* char::escape_debug as used by <str as Debug>::fmt.
EscapeDebug(c) ==
    CASE c = "\"" -> <<"\\", "\"">>
      [] c = "\\" -> <<"\\", "\\">>
      [] c = "\n" -> <<"\\", "n">>
      [] c = "\t" -> <<"\\", "t">>
      [] c = "\r" -> <<"\\", "r">>
      [] OTHER    -> <<c>>

RECURSIVE EscapeAll(_)
EscapeAll(s) ==
    IF s = <<>> THEN <<>> ELSE EscapeDebug(Head(s)) \o EscapeAll(Tail(s))

\* <String as Debug>::fmt: the pieces written: quote, escaped text, quote.
StrDebug(s) ==
    <<<<"\"">>>>
    \o (IF s = <<>> THEN <<>> ELSE <<EscapeAll(s)>>)
    \o <<<<"\"">>>>

TypeName == <<"C", "o", "n", "f", "i", "g">>
FieldName1 == <<"n", "a", "m", "e">>
FieldName2 == <<"v", "e", "r", "s", "i", "o", "n">>

\* Variant: the fields are written in the other order.
DebugFmtSwapped(c) ==
    <<TypeName, <<" ", "{", " ">>, FieldName2, <<":", " ">>>>
    \o <<DecDigits(c.version)>>
    \o <<<<",", " ">>, FieldName1, <<":", " ">>>>
    \o StrDebug(c.name)
    \o <<<<" ", "}">>>>

\* <Config as Debug>::fmt, derived: debug_struct("Config").field("name", ..)
\* .field("version", ..).finish(), as the pieces handed to the writer.
DebugFmt(c) ==
    <<TypeName, <<" ", "{", " ">>, FieldName1, <<":", " ">>>>
    \o StrDebug(c.name)
    \o <<<<",", " ">>, FieldName2, <<":", " ">>>>
    \o <<DecDigits(c.version)>>
    \o <<<<" ", "}">>>>

Label == <<"t", "e", "s", "t", " ", "r", "u", "s", "t", " ", "p", "r", "o",
           "j", "e", "c", "t", ":", " ">>

\* println!("test rust project: {:?}", config): the literal, the argument,
\* and the line break println! appends.
PrintlnPieces(c) == <<Label>> \o DebugFmt(c) \o <<<<"\n">>>>

(***************************************************************************)
(* The stdout handle: LineWriter over descriptor 1.                        *)
(***************************************************************************)
BufCapacity == 1024

\* Variant: an unbuffered handle, which flushes after every piece.
AlwaysFlush(piece) == TRUE

\* LineWriterShim::write_all: a piece holding a line break completes a line
\* and makes the writer flush; any other piece is only buffered.
NeedsFlush(piece) == "\n" \in Range(piece)

\* Exit status of a process whose main returned / whose main panicked.
ExitSuccess == 0
ExitPanic == 101

PanicMessage == "thread 'main' panicked: failed printing to stdout"

NumShort == Cardinality({i \in 1..Len(oslog) : oslog[i].r = "short"})
NumIntr  == Cardinality({i \in 1..Len(oslog) : oslog[i].r = "eintr"})

RunInit ==
    /\ args \in ArgChoices
    /\ env \in EnvChoices
    /\ pc = "start"
    /\ config = <<>>
    /\ fmtPos = 0
    /\ buf = <<>>
    /\ stdout = <<>>
    /\ stderr = <<>>
    /\ panicked = FALSE
    /\ exitCode = <<>>
    /\ oslog = <<>>
    /\ opened = {}

SerIdle ==
    /\ serIn = <<>>
    /\ serMap = <<>>
    /\ deOut = <<>>

Init ==
    /\ RunInit
    /\ prev = <<>>
    /\ SerIdle

(***************************************************************************)
(* main                                                                    *)
(***************************************************************************)
\* Variant: the record is also saved to a file when it is built.
ConstructAndSave ==
    /\ pc = "start"
    /\ config' = <<MainConfig>>
    /\ opened' = opened \cup {"config.json"}
    /\ pc' = "print"
    /\ UNCHANGED <<args, env, fmtPos, buf, stdout, stderr, panicked, exitCode,
                   oslog, prev, serIn, serMap, deOut>>

\* lines 10-13: the record is built; println! starts with its first piece.
Construct ==
    /\ pc = "start"
    /\ config' = <<MainConfig>>
    /\ pc' = "print"
    /\ UNCHANGED <<args, env, fmtPos, buf, stdout, stderr, panicked, exitCode,
                   oslog, opened, prev, serIn, serMap, deOut>>

\* Variant: printing the version field also increments it.
WriteStrBumping ==
    /\ pc = "print"
    /\ fmtPos < Len(PrintlnPieces(config[1]))
    /\ LET piece == PrintlnPieces(config[1])[fmtPos + 1]
       IN  /\ Len(piece) < BufCapacity - Len(buf)
           /\ buf' = buf \o piece
           /\ pc' = IF NeedsFlush(piece) THEN "flush" ELSE "print"
           /\ config' = IF piece = FieldName2
                        THEN <<Config(config[1].name,
                                      U32(config[1].version.hi,
                                          config[1].version.lo + 1))>>
                        ELSE config
    /\ fmtPos' = fmtPos + 1
    /\ UNCHANGED <<args, env, stdout, stderr, panicked, exitCode,
                   oslog, opened, prev, serIn, serMap, deOut>>

\* line 14: the formatter hands the next piece to the stdout handle, which
\* appends it to its buffer (it fits: BufWriter's fast path) and starts a
\* flush when the piece completes a line.
WriteStr ==
    /\ pc = "print"
    /\ fmtPos < Len(PrintlnPieces(config[1]))
    /\ LET piece == PrintlnPieces(config[1])[fmtPos + 1]
       IN  /\ Len(piece) < BufCapacity - Len(buf)
           /\ buf' = buf \o piece
           /\ pc' = IF NeedsFlush(piece) THEN "flush" ELSE "print"
    /\ fmtPos' = fmtPos + 1
    /\ UNCHANGED <<args, env, config, stdout, stderr, panicked, exitCode,
                   oslog, opened, prev, serIn, serMap, deOut>>

\* Where control goes when BufWriter::flush_buf has written everything.
AfterFlush == IF pc = "flush" THEN "print" ELSE "exit"

\* Variant: the result of the write is discarded and main carries on.
AfterFlushErrorIgnored == IF pc = "flush" THEN "print" ELSE "exit"

\* Where control goes when flush_buf returns an error: println! panics;
\* the flush at exit ignores the error.
AfterFlushError == IF pc = "flush" THEN "panic" ELSE "exit"

Flushing == pc \in {"flush", "cleanup"} /\ buf # <<>>

\* write(1, buf) accepts all of the buffer.
WriteFull ==
    /\ Flushing
    /\ stdout' = stdout \o buf
    /\ buf' = <<>>
    /\ oslog' = Append(oslog, [r |-> "full", n |-> 0])
    /\ pc' = AfterFlush
    /\ UNCHANGED <<args, env, config, fmtPos, stderr, panicked, exitCode,
                   opened, prev, serIn, serMap, deOut>>

\* write(1, buf) accepts only the first n bytes; flush_buf loops.
WriteShort ==
    /\ Flushing
    /\ NumShort < MaxShortWrites
    /\ \E n \in 1..MaxShort :
          /\ n < Len(buf)
          /\ stdout' = stdout \o SubSeq(buf, 1, n)
          /\ buf' = Drop(buf, n)
          /\ oslog' = Append(oslog, [r |-> "short", n |-> n])
    /\ UNCHANGED <<args, env, pc, config, fmtPos, stderr, panicked, exitCode,
                   opened, prev, serIn, serMap, deOut>>

\* write(1, buf) fails with EINTR; flush_buf retries.
WriteInterrupted ==
    /\ Flushing
    /\ NumIntr < MaxInterrupts
    /\ oslog' = Append(oslog, [r |-> "eintr", n |-> 0])
    /\ UNCHANGED <<args, env, pc, config, fmtPos, buf, stdout, stderr,
                   panicked, exitCode, opened, prev, serIn, serMap, deOut>>

\* write(1, buf) fails with another error, or accepts zero bytes (WriteZero):
\* flush_buf returns the error and keeps the unwritten bytes buffered.
WriteError ==
    /\ Flushing
    /\ \E kind \in {"err", "zero"} :
          oslog' = Append(oslog, [r |-> kind, n |-> 0])
    /\ pc' = AfterFlushError
    /\ UNCHANGED <<args, env, config, fmtPos, buf, stdout, stderr, panicked,
                   exitCode, opened, prev, serIn, serMap, deOut>>

\* println! panics "failed printing to stdout": the panic hook writes its
\* message to descriptor 2, with a backtrace (symbolised from the executable
\* file) when RUST_BACKTRACE is set; main unwinds.
Panic ==
    /\ pc = "panic"
    /\ panicked' = TRUE
    /\ stderr' = stderr \o <<PanicMessage>>
                 \o (IF "RUST_BACKTRACE" \in env
                     THEN <<"stack backtrace">>
                     ELSE <<"note: run with RUST_BACKTRACE=1">>)
    /\ opened' = IF "RUST_BACKTRACE" \in env
                 THEN opened \cup {"/proc/self/exe"}
                 ELSE opened
    /\ pc' = "cleanup"
    /\ UNCHANGED <<args, env, config, fmtPos, buf, stdout, exitCode, oslog,
                   prev, serIn, serMap, deOut>>

\* line 15: every piece has been written; main returns and the runtime
\* cleans up.
MainReturn ==
    /\ pc = "print"
    /\ fmtPos = Len(PrintlnPieces(config[1]))
    /\ pc' = "cleanup"
    /\ UNCHANGED <<args, env, config, fmtPos, buf, stdout, stderr, panicked,
                   exitCode, oslog, opened, prev, serIn, serMap, deOut>>

\* The runtime's cleanup drops the stdout handle; with nothing buffered there
\* is nothing to flush.
CleanupDone ==
    /\ pc = "cleanup"
    /\ buf = <<>>
    /\ pc' = "exit"
    /\ UNCHANGED <<args, env, config, fmtPos, buf, stdout, stderr, panicked,
                   exitCode, oslog, opened, prev, serIn, serMap, deOut>>

\* Variant: the process always exits with the failure status.
ExitCodeAlwaysFailure == ExitPanic

\* The status the process exits with.
MainExitCode == IF panicked THEN ExitPanic ELSE ExitSuccess

Exit ==
    /\ pc = "exit"
    /\ exitCode' = <<MainExitCode>>
    /\ pc' = "exited"
    /\ UNCHANGED <<args, env, config, fmtPos, buf, stdout, stderr, panicked,
                   oslog, opened, prev, serIn, serMap, deOut>>

Next ==
    \/ Construct
    \/ WriteStr
    \/ WriteFull
    \/ WriteShort
    \/ WriteInterrupted
    \/ WriteError
    \/ Panic
    \/ MainReturn
    \/ CleanupDone
    \/ Exit

Spec == Init /\ [][Next]_vars

FairSpec == Spec /\ WF_vars(Next)

(***************************************************************************)
(* #[derive(Serialize, Deserialize)]: Config to and from a mapping, a      *)
(* sequence of key/value entries.  A value of the mapping is a string, an  *)
(* integer of the wide integer type of the data model (sign and magnitude  *)
(* hi * 65536 + lo, hi unbounded), or a boolean.                           *)
(***************************************************************************)
StrVal(s) == [t |-> "str", s |-> s, neg |-> FALSE, hi |-> 0, lo |-> 0]
IntVal(neg, h, l) == [t |-> "int", s |-> <<>>, neg |-> neg, hi |-> h, lo |-> l]
BoolVal == [t |-> "bool", s |-> <<>>, neg |-> FALSE, hi |-> 0, lo |-> 0]

Entry(k, v) == [k |-> k, v |-> v]

Ok(c) == [ok |-> TRUE, val |-> <<c>>, err |-> "none"]
Err(e) == [ok |-> FALSE, val |-> <<>>, err |-> e]

\* Variant: the version is serialized as a 16-bit integer.
SerializeNarrow(c) ==
    << Entry(FieldName1, StrVal(c.name)),
       Entry(FieldName2, IntVal(FALSE, 0, c.version.lo)) >>

\* <Config as Serialize>::serialize: serialize_struct, then the fields in
\* declaration order: serialize_str(name), serialize_u32(version).
Serialize(c) ==
    << Entry(FieldName1, StrVal(c.name)),
       Entry(FieldName2, IntVal(FALSE, c.version.hi, c.version.lo)) >>

\* <String as Deserialize>: only a string is accepted.
DeString(v) == IF v.t = "str" THEN Ok(v.s) ELSE Err("invalid_type")

\* Variant: the integer is truncated to its low 32 bits (`as u32`).
DeU32Wrapping(v) ==
    IF v.t # "int" THEN Err("invalid_type")
    ELSE Ok(U32(v.hi % LimbBase, v.lo))

\* <u32 as Deserialize>: visit_i64 / visit_u64 accept the integer only when
\* it lies in 0..=u32::MAX, and never truncate it.
DeU32(v) ==
    IF v.t # "int" THEN Err("invalid_type")
    ELSE IF v.neg \/ v.hi >= LimbBase THEN Err("invalid_value")
    ELSE Ok(U32(v.hi, v.lo))

\* Variant: a field never seen takes its default value (#[serde(default)]).
RECURSIVE VisitMapDefault(_, _, _)
VisitMapDefault(m, name, version) ==
    IF m = <<>>
    THEN Ok(Config(IF name = <<>> THEN <<>> ELSE name[1],
                   IF version = <<>> THEN U32(0, 0) ELSE version[1]))
    ELSE LET e == Head(m)
         IN  IF e.k = FieldName1
             THEN IF name # <<>> THEN Err("duplicate_field name")
                  ELSE IF ~DeString(e.v).ok THEN DeString(e.v)
                  ELSE VisitMapDefault(Tail(m), DeString(e.v).val, version)
             ELSE IF e.k = FieldName2
             THEN IF version # <<>> THEN Err("duplicate_field version")
                  ELSE IF ~DeU32(e.v).ok THEN DeU32(e.v)
                  ELSE VisitMapDefault(Tail(m), name, DeU32(e.v).val)
             ELSE VisitMapDefault(Tail(m), name, version)

\* The derived Visitor::visit_map: entries are taken in order; a key seen
\* twice is an error, an unknown key is skipped, the first error is returned;
\* at the end a field never seen is an error.
RECURSIVE VisitMap(_, _, _)
VisitMap(m, name, version) ==
    IF m = <<>>
    THEN IF name = <<>> THEN Err("missing_field name")
         ELSE IF version = <<>> THEN Err("missing_field version")
         ELSE Ok(Config(name[1], version[1]))
    ELSE LET e == Head(m)
         IN  IF e.k = FieldName1
             THEN IF name # <<>> THEN Err("duplicate_field name")
                  ELSE IF ~DeString(e.v).ok THEN DeString(e.v)
                  ELSE VisitMap(Tail(m), DeString(e.v).val, version)
             ELSE IF e.k = FieldName2
             THEN IF version # <<>> THEN Err("duplicate_field version")
                  ELSE IF ~DeU32(e.v).ok THEN DeU32(e.v)
                  ELSE VisitMap(Tail(m), name, DeU32(e.v).val)
             ELSE VisitMap(Tail(m), name, version)

\* <Config as Deserialize>::deserialize
Deserialize(m) == VisitMap(m, <<>>, <<>>)

(***************************************************************************)
(* Inputs of the serialization harness.                                    *)
(***************************************************************************)
\* the longest sampled name
MaxNameLen == 1

NameAlphabet == {"t", "\""}

SeqsUpTo(S, n) == UNION {[1..k -> S] : k \in 0..n}

NameSamples == SeqsUpTo(NameAlphabet, MaxNameLen)

\* u32 values within MaxDelta of 0 and of u32::MAX
U32Samples ==
    {U32(0, d) : d \in 0..MaxDelta}
    \cup {U32(LimbBase - 1, LimbBase - 1 - d) : d \in 0..MaxDelta}

\* wide integers around 0 and around the u32 boundary, and negative ones
WideSamples ==
    {IntVal(FALSE, v.hi, v.lo) : v \in U32Samples}
    \cup {IntVal(FALSE, LimbBase, d) : d \in 0..MaxDelta}
    \cup {IntVal(TRUE, 0, d + 1) : d \in 0..MaxDelta}
    \cup {IntVal(TRUE, LimbBase, 0)}

ValueSamples ==
    {StrVal(n) : n \in NameSamples} \cup WideSamples \cup {BoolVal}

KeySamples == {FieldName1, FieldName2, <<"x">>}

EntrySamples == {Entry(k, v) : k \in KeySamples, v \in ValueSamples}

MappingSamples == SeqsUpTo(EntrySamples, MaxEntries)

ConfigSamples == {Config(n, v) : n \in NameSamples, v \in U32Samples}

RunIdle ==
    /\ args = <<>>
    /\ env = {}
    /\ pc = "start"
    /\ config = <<>>
    /\ fmtPos = 0
    /\ buf = <<>>
    /\ stdout = <<>>
    /\ stderr = <<>>
    /\ panicked = FALSE
    /\ exitCode = <<>>
    /\ oslog = <<>>
    /\ opened = {}

\* The harness starts with a Config to encode, or with a mapping to decode.
InitSerde ==
    /\ RunIdle
    /\ prev = <<>>
    /\ deOut = <<>>
    /\ \/ serIn \in {<<c>> : c \in ConfigSamples} /\ serMap = <<>>
       \/ serIn = <<>> /\ serMap \in {<<m>> : m \in MappingSamples}

SerializeConfig ==
    /\ serIn # <<>>
    /\ serMap = <<>>
    /\ serMap' = <<Serialize(serIn[1])>>
    /\ UNCHANGED <<runVars, prev, serIn, deOut>>

DeserializeMap ==
    /\ serMap # <<>>
    /\ deOut = <<>>
    /\ deOut' = <<Deserialize(serMap[1])>>
    /\ UNCHANGED <<runVars, prev, serIn, serMap>>

NextSerde == SerializeConfig \/ DeserializeMap

SpecSerde == InitSerde /\ [][NextSerde]_vars

(***************************************************************************)
(* Repeated invocation: the process is started again, with other arguments *)
(* and another environment, and meets the same results of its writes.      *)
(***************************************************************************)
Outcome == [args |-> args, env |-> env, stdout |-> stdout,
            exitCode |-> exitCode, oslog |-> oslog]

Reinvoke ==
    /\ pc = "exited"
    /\ prev = <<>>
    /\ prev' = <<Outcome>>
    /\ args' \in ArgChoices
    /\ env' \in EnvChoices
    /\ pc' = "start"
    /\ config' = <<>>
    /\ fmtPos' = 0
    /\ buf' = <<>>
    /\ stdout' = <<>>
    /\ stderr' = <<>>
    /\ panicked' = FALSE
    /\ exitCode' = <<>>
    /\ oslog' = <<>>
    /\ opened' = {}
    /\ UNCHANGED serVars

\* The second invocation meets the results the first one met.
Replays == prev = <<>> \/ IsPrefix(oslog, prev[1].oslog)

NextRepeat == (Next /\ Replays') \/ Reinvoke

SpecRepeat == Init /\ [][NextRepeat]_vars

(***************************************************************************)
(* The claims.                                                             *)
(***************************************************************************)
\* The line of the specification, byte by byte.
ExpectedLine ==
    <<"t", "e", "s", "t", " ", "r", "u", "s", "t", " ", "p", "r", "o", "j",
      "e", "c", "t", ":", " ", "C", "o", "n", "f", "i", "g", " ", "{", " ",
      "n", "a", "m", "e", ":", " ", "\"", "t", "e", "s", "t", "\"", ",", " ",
      "v", "e", "r", "s", "i", "o", "n", ":", " ", "1", " ", "}", "\n">>

\* Some write on descriptor 1 failed.
OsFailed == \E i \in 1..Len(oslog) : oslog[i].r \in {"err", "zero"}

NumFull == Cardinality({i \in 1..Len(oslog) : oslog[i].r = "full"})

Exited == pc = "exited"

\* C1: what the run hands to standard output is exactly the line
\* `test rust project: Config { name: "test", version: 1 }` and a line break:
\* whenever the handle flushes, the bytes already accepted followed by the
\* bytes still buffered are that line; standard output never holds anything
\* but a prefix of it; and once println! has returned it holds all of it.
C1_ExactLine ==
    /\ IsPrefix(stdout, ExpectedLine)
    /\ (Flushing => stdout \o buf = ExpectedLine)
    /\ (pc \in {"cleanup", "exit", "exited"} /\ ~panicked
            => stdout = ExpectedLine)

C1_Witness ==
    /\ Exited
    /\ exitCode = <<0>>
    /\ stdout = ExpectedLine

\* C2: a run started with no arguments eventually exits; a run whose writes
\* to standard output all succeed exits with code 0 and no other code; and a
\* run has an exit code on that path only once the whole line is on standard
\* output and nothing is left buffered.
C2_TerminatesWithZero ==
    /\ (args = <<>>) => <>Exited
    /\ [](Exited /\ ~OsFailed => exitCode = <<0>>)
    /\ [](exitCode # <<>> /\ ~OsFailed
            => stdout = ExpectedLine /\ buf = <<>> /\ exitCode = <<0>>)

C2_Witness ==
    /\ Exited
    /\ args = <<>>
    /\ ~OsFailed
    /\ NumShort > 0
    /\ exitCode = <<0>>
    /\ stdout = ExpectedLine

C4_SameOutputAnyInputs ==
    (Exited /\ prev # <<>> /\ oslog = prev[1].oslog)
        => /\ stdout = prev[1].stdout
           /\ exitCode = prev[1].exitCode

C4_Witness ==
    /\ Exited
    /\ prev # <<>>
    /\ oslog = prev[1].oslog
    /\ args # prev[1].args
    /\ env # prev[1].env
    /\ stdout = ExpectedLine
    /\ exitCode = <<0>>

\* C5: encoding a Config gives a mapping of two entries, "name" with a
\* string and "version" with an integer, and decoding that mapping gives back
\* a Config equal to the original in both fields.
C5_RoundTrip ==
    /\ (serIn # <<>> /\ serMap # <<>>
           => /\ Len(serMap[1]) = 2
              /\ serMap[1][1].k = <<"n", "a", "m", "e">>
              /\ serMap[1][1].v.t = "str"
              /\ serMap[1][2].k = <<"v", "e", "r", "s", "i", "o", "n">>
              /\ serMap[1][2].v.t = "int")
    /\ (serIn # <<>> /\ deOut # <<>>
           => /\ deOut[1].ok
              /\ deOut[1].val # <<>>
              /\ deOut[1].val[1].name = serIn[1].name
              /\ deOut[1].val[1].version = serIn[1].version)

C5_Witness ==
    /\ serIn # <<>>
    /\ serIn[1].version = U32Max
    /\ serIn[1].name # <<>>
    /\ deOut # <<>>
    /\ deOut[1].ok

\* The entries of mapping m with key k.
EntriesOf(m, k) == {i \in 1..Len(m) : m[i].k = k}

\* Mapping m has exactly one "name", a string, and exactly one "version".
OneOfEach(m) ==
    /\ Cardinality(EntriesOf(m, FieldName1)) = 1
    /\ Cardinality(EntriesOf(m, FieldName2)) = 1
    /\ \A i \in EntriesOf(m, FieldName1) : m[i].v.t = "str"

\* Integer value v is 0 / 4294967295 / 4294967296 / in 0..4294967295.
IsZero(v) == v.t = "int" /\ ~v.neg /\ v.hi = 0 /\ v.lo = 0
IsMaxU32(v) == v.t = "int" /\ ~v.neg /\ v.hi = 65535 /\ v.lo = 65535
IsTwoTo32(v) == v.t = "int" /\ ~v.neg /\ v.hi = 65536 /\ v.lo = 0
InU32Range(v) == v.t = "int" /\ ~v.neg /\ v.hi <= 65535 /\ v.lo <= 65535

\* C6: decoding a mapping whose version is 0 or 4294967295 succeeds;
\* decoding one whose version is 4294967296 or negative is rejected; and a
\* decoded Config holds a version in 0..4294967295 that is the integer of
\* the mapping, never that integer reduced modulo 2^32.
C6_VersionBoundary ==
    (serMap # <<>> /\ deOut # <<>>) =>
        LET m == serMap[1]
            r == deOut[1]
        IN  /\ (OneOfEach(m) /\ \A i \in EntriesOf(m, FieldName2) :
                                    IsZero(m[i].v) \/ IsMaxU32(m[i].v))
                  => r.ok
            /\ (\E i \in EntriesOf(m, FieldName2) :
                    IsTwoTo32(m[i].v) \/ (m[i].v.t = "int" /\ m[i].v.neg))
                  => ~r.ok
            /\ r.ok
                  => /\ r.val[1].version.hi \in 0..65535
                     /\ r.val[1].version.lo \in 0..65535
                     /\ \A i \in EntriesOf(m, FieldName2) :
                           /\ m[i].v.hi = r.val[1].version.hi
                           /\ m[i].v.lo = r.val[1].version.lo

C6_Witness ==
    /\ serIn = <<>>
    /\ serMap # <<>>
    /\ OneOfEach(serMap[1])
    /\ \E i \in EntriesOf(serMap[1], FieldName2) : IsTwoTo32(serMap[1][i].v)
    /\ deOut = <<Err("invalid_value")>>

\* The errors Deserialize returns for malformed data.
MalformedData ==
    {"missing_field name", "missing_field version", "duplicate_field name",
     "duplicate_field version", "invalid_type", "invalid_value"}

\* C7: decoding a mapping without a "name" entry, or without a "version"
\* entry, or with a version that is not an integer of 0..4294967295, returns
\* an error value of the malformed-data kind: no Config is produced, and the
\* process neither panics nor exits.
C7_MalformedIsError ==
    (serMap # <<>> /\ deOut # <<>>) =>
        LET m == serMap[1]
            r == deOut[1]
        IN  (\/ EntriesOf(m, FieldName1) = {}
             \/ EntriesOf(m, FieldName2) = {}
             \/ \E i \in EntriesOf(m, FieldName2) : ~InU32Range(m[i].v))
                => /\ ~r.ok
                   /\ r.val = <<>>
                   /\ r.err \in MalformedData
                   /\ ~panicked
                   /\ pc # "panic"
                   /\ exitCode = <<>>

C7_Witness ==
    /\ serMap # <<>>
    /\ Len(serMap[1]) = 1
    /\ EntriesOf(serMap[1], FieldName1) = {}
    /\ \E i \in EntriesOf(serMap[1], FieldName2) : IsMaxU32(serMap[1][i].v)
    /\ deOut = <<Err("missing_field name")>>

\* C8 as stated: at exit, a failed write means a non-zero exit code,
\* standard output holds the complete line or nothing, and exit code 0 goes
\* only with the complete line.
C8_AllOrNothing ==
    Exited =>
        /\ (OsFailed => exitCode # <<0>>)
        /\ (stdout = ExpectedLine \/ stdout = <<>>)
        /\ (exitCode = <<0>> => stdout = ExpectedLine)

\* C8 (amended): at exit, a failed write means exit code 101, standard
\* output holds a prefix of the line in its order (the complete line, nothing,
\* or, only after the stream accepted part of a write, a proper prefix), and
\* exit code 0 goes only with the complete line.
C8_PrefixOnFailure ==
    Exited =>
        /\ (OsFailed => exitCode = <<101>>)
        /\ IsPrefix(stdout, ExpectedLine)
        /\ (stdout # ExpectedLine /\ stdout # <<>> => NumShort > 0)
        /\ (exitCode = <<0>> => stdout = ExpectedLine)

C8_Witness ==
    /\ Exited
    /\ OsFailed
    /\ exitCode = <<101>>
    /\ stdout # <<>>
    /\ stdout # ExpectedLine
    /\ stderr # <<>>

\* C9: the record is created once, with name "test" and version 1, and is
\* never modified: it exists exactly from the construction on, holds those
\* two values in every state, no step changes it once it exists, and control
\* never returns to the construction.
C9_ConfigImmutable ==
    /\ []((config = <<>>) <=> (pc = "start"))
    /\ [](config # <<>> =>
            /\ Len(config) = 1
            /\ config[1].name = <<"t", "e", "s", "t">>
            /\ config[1].version = [hi |-> 0, lo |-> 1])
    /\ [][config # <<>> => config' = config]_vars
    /\ [][pc # "start" => pc' # "start"]_vars

C9_Witness ==
    /\ Exited
    /\ panicked
    /\ config = <<[name |-> <<"t", "e", "s", "t">>, version |-> [hi |-> 0, lo |-> 1]]>>

\* C10: construct, then format, then emit: a piece is formatted only once
\* the record exists; standard output receives nothing before every piece of
\* the rendering has been produced; what it receives is a prefix of the
\* rendering of the constructed record, and all of it when println! returns;
\* the formatter only advances, the bytes on standard output are only
\* appended to, and at most one write completes the line.
C10_ConstructFormatEmit ==
    /\ [](fmtPos > 0 => config # <<>>)
    /\ [](Len(buf) < BufCapacity)
    /\ [](stdout # <<>> =>
            /\ config # <<>>
            /\ fmtPos = Len(PrintlnPieces(config[1]))
            /\ IsPrefix(stdout, Flatten(PrintlnPieces(config[1]))))
    /\ [](pc \in {"cleanup", "exit", "exited"} /\ ~panicked
            => stdout = Flatten(PrintlnPieces(config[1])))
    /\ [](NumFull <= 1)
    /\ [][fmtPos' >= fmtPos /\ IsPrefix(stdout, stdout')]_vars

C10_Witness ==
    /\ pc = "flush"
    /\ NumShort > 0
    /\ stdout # <<>>
    /\ buf # <<>>
    /\ fmtPos = Len(PrintlnPieces(config[1]))

====
